---- MODULE Spec2Model ----
(***************************************************************************)
(* A model of the RAG chatbot: the batched ingestion run of ingest.py and  *)
(* the conversation loop of chat.py.  File names are sequences of          *)
(* characters so that glob("*.pdf"), Path.stem and the f-strings that      *)
(* build chunk ids and citations are computed, not assumed.                *)
(***************************************************************************)
EXTENDS Integers, Sequences, FiniteSets, TLC

VARIABLES
    \* ---- ingest.py: ingest_documents ----
    ipc,            \* position of the ingestion run
    env,            \* what load_environment / the splitter constructor find
    docs_dir,       \* whether docs/ exists, and the file names in it
    batch_size,     \* config["batch_size"], any integer
    pdf_files,      \* the list find_pdf_files returned
    fi,             \* number of pdf_files already loaded
    loaded,         \* per processed file: its name and what the loader returned
    all_documents,  \* the chunk sequence built by the loading loop
    batches,        \* the result of process_documents_in_batches
    bi,             \* enumerate index of the batch loop
    vectorstore,    \* "None" or "handle"
    collection,     \* the records of collection pdf_knowledge, in write order
    pre,            \* the records that were in the collection before the run
    embedCalls,     \* embedding calls issued by the run
    addCalls,       \* store writes issued by the run (from_texts + add_texts)
    log,            \* the records written through logging
    raised,         \* the exception ingest_documents re-raised, or "none"
    \* ---- chat.py: chat_loop ----
    cpc,            \* position of the chat program
    cenv,           \* what load_environment finds
    db,             \* the persist directory: whether it exists, count()
    memory,         \* ConversationBufferMemory: the (question, answer) turns
    chainCalls,     \* invocations of qa_chain
    backend,        \* calls made to the embedder, the index and the LLM
    raw,            \* the line input() returned last
    reads,          \* lines read so far
    out,            \* what the program printed, in order
    \* ---- chat.py: format_sources on its own ----
    fpc,            \* position of the formatting run
    fdocs,          \* the retrieved documents handed to format_sources
    fout,           \* its result
    fout2           \* its result on the documents without their repeats

ivars == <<ipc, env, docs_dir, batch_size, pdf_files, fi, loaded, all_documents,
           batches, bi, vectorstore, collection, pre, embedCalls, addCalls,
           log, raised>>

cvars == <<cpc, cenv, db, memory, chainCalls, backend, raw, reads, out>>

fvars == <<fpc, fdocs, fout, fout2>>

vars == <<ivars, cvars, fvars>>

----------------------------------------------------------------------------
\* Bounds of the model.

MaxFiles  == 3   \* entries in docs/
MaxChunks == 3   \* chunks the loader returns for one PDF
MaxBatch  == 4   \* largest positive BATCH_SIZE
MaxPre    == 1   \* records in the collection before the run

BatchSizes == {-1, 0} \cup (1..MaxBatch)

\* The text of a chunk: chunks are told apart by their metadata.
Texts == {"t1"}

\* File names that may lie in docs/, as character sequences.
DirNames == { <<"a", ".", "p", "d", "f">>,
              <<".", "p", "d", "f">>,
              <<".", "p", "d", "f", ".", "p", "d", "f">>,
              <<"a", ".", "t", "x", "t">> }

----------------------------------------------------------------------------
\* Strings.

RECURSIVE Str(_)
Str(cs) == IF cs = <<>> THEN "" ELSE Head(cs) \o Str(Tail(cs))

EndsWith(cs, suffix) ==
    /\ Len(cs) >= Len(suffix)
    /\ SubSeq(cs, Len(cs) - Len(suffix) + 1, Len(cs)) = suffix

\* str.rfind(ch) as a 0-based index, -1 when absent.
rfind(cs, ch) ==
    LET hits == {k \in 1..Len(cs) : cs[k] = ch}
    IN  IF hits = {} THEN -1
        ELSE (CHOOSE k \in hits : \A j \in hits : j <= k) - 1

\* PurePath.stem: the name without its last suffix; a leading or a trailing
\* dot starts no suffix.
stem(name) ==
    LET i == rfind(name, ".")
    IN  IF 0 < i /\ i < Len(name) - 1 THEN SubSeq(name, 1, i) ELSE name

\* Path.glob("*.pdf") on one directory level.
glob_pdf(names) == {n \in names : EndsWith(n, <<".", "p", "d", "f">>)}

\* All orderings of a finite set (the order glob yields is arbitrary).
Orderings(S) ==
    {s \in [1..Cardinality(S) -> S] : \A i, j \in 1..Cardinality(S) :
                                          i # j => s[i] # s[j]}

\* Sequences over S of length at most n.
SeqUpTo(S, n) == UNION {[1..k -> S] : k \in 0..n}

----------------------------------------------------------------------------
\* logging.info / warning / error: the level, the fixed text of the message
\* and the values interpolated into it.

LogRec(level, msg, name, nums, err) ==
    [level |-> level, msg |-> msg, name |-> name, nums |-> nums, err |-> err]

Info(msg, name, nums) == LogRec("INFO", msg, name, nums, "")

----------------------------------------------------------------------------
\* ingest.py

\* load_and_split_pdf, the metadata loop: texts are the chunk texts the
\* loader returned for pdf_path = docs/<name>.
\* Mutant: the enumerate index used without the + 1.
ChunkMetadataZeroBased(name, i) ==
    [source_path |-> "docs/" \o Str(name),
     filename    |-> Str(name),
     page_number |-> i,
     chunk_id    |-> Str(stem(name)) \o "_page_" \o ToString(i)]

ChunkMetadata(name, i) ==
    [source_path |-> "docs/" \o Str(name),
     filename    |-> Str(name),
     page_number |-> i + 1,
     chunk_id    |-> Str(stem(name)) \o "_page_" \o ToString(i + 1)]

load_and_split_pdf(name, texts) ==
    [k \in 1..Len(texts) |->
        LET i == k - 1
        IN  [page_content |-> texts[k], metadata |-> ChunkMetadata(name, i)]]

\* range(start, stop, step) for step # 0.
RECURSIVE range(_, _, _)
range(start, stop, step) ==
    IF (step > 0 /\ start < stop) \/ (step < 0 /\ start > stop)
    THEN <<start>> \o range(start + step, stop, step)
    ELSE <<>>

Min(a, b) == IF a <= b THEN a ELSE b

\* Mutant: a slice that takes one element too many.
SliceInclusive(documents, i, j) ==
    SubSeq(documents, i + 1, Min(j + 1, Len(documents)))

\* documents[i : i + batch_size] for 0 <= i, batch_size > 0.
Slice(documents, i, j) == SubSeq(documents, i + 1, Min(j, Len(documents)))

\* Mutant: only full batches, the trailing partial batch is lost.
batches_full_only(documents, size) ==
    LET starts == range(0, Len(documents) - size + 1, size)
    IN  [k \in 1..Len(starts) |->
            SubSeq(documents, starts[k] + 1, starts[k] + size)]

process_documents_in_batches(documents, size) ==
    LET starts == range(0, Len(documents), size)
    IN  [k \in 1..Len(starts) |->
            Slice(documents, starts[k], starts[k] + size)]

\* texts and metadatas of a batch, as the records the store receives.
BatchRecords(batch) ==
    [k \in 1..Len(batch) |->
        [text |-> batch[k].page_content, metadata |-> batch[k].metadata]]

PreRecord ==
    [text |-> "old",
     metadata |-> [source_path |-> "docs/old.pdf", filename |-> "old.pdf",
                   page_number |-> 1, chunk_id |-> "old_page_1"]]

\* except Exception as e: logging.error(...); raise
Fail(logged, e) ==
    /\ ipc' = "failed"
    /\ raised' = e
    /\ log' = Append(logged, LogRec("ERROR", "Ingestion failed", "", <<>>, e))

InitIngest ==
    /\ ipc = "start"
    /\ env \in {"ok", "missing_key", "bad_splitter"}
    /\ docs_dir \in {[exists |-> FALSE, names |-> {}]} \cup
                    {[exists |-> TRUE, names |-> d] :
                        d \in {x \in SUBSET DirNames : Cardinality(x) <= MaxFiles}}
    /\ batch_size \in BatchSizes
    /\ pdf_files = <<>>
    /\ fi = 0
    /\ loaded = <<>>
    /\ all_documents = <<>>
    /\ batches = <<>>
    /\ bi = 0
    /\ vectorstore = "None"
    /\ pre \in SeqUpTo({PreRecord}, MaxPre)
    /\ collection = pre
    /\ embedCalls = 0
    /\ addCalls = 0
    /\ log = <<Info("Starting document ingestion process", "", <<>>)>>
    /\ raised = "none"
    /\ cpc = "idle"
    /\ cenv = "ok"
    /\ db = [exists |-> FALSE, count |-> 0]
    /\ memory = <<>>
    /\ chainCalls = 0
    /\ backend = [embed |-> 0, search |-> 0, llm |-> 0]
    /\ raw = <<>>
    /\ reads = 0
    /\ out = <<>>
    /\ fpc = "idle"
    /\ fdocs = <<>>
    /\ fout = ""
    /\ fout2 = ""

\* lines 116-131: load_environment, find_pdf_files, the splitter.
FindPdfFiles ==
    /\ ipc = "start"
    /\ UNCHANGED <<cvars, fvars>>
    /\ UNCHANGED <<env, docs_dir, batch_size, fi, loaded, all_documents,
                   batches, bi, vectorstore, collection, pre, embedCalls,
                   addCalls>>
    /\ IF env = "missing_key"
       THEN Fail(log, "ValueError: missing environment variables")
            /\ UNCHANGED pdf_files
       ELSE LET configured ==
                    Append(log, Info("Environment configuration loaded", "", <<>>))
            IN
            IF ~docs_dir.exists
            THEN Fail(configured, "FileNotFoundError: docs")
                 /\ UNCHANGED pdf_files
            ELSE \E files \in Orderings(glob_pdf(docs_dir.names)) :
                   LET found == Append(configured,
                                    Info("Found PDF files", "", <<Len(files)>>))
                   IN
                   IF files = <<>>
                   THEN /\ ipc' = "returned"
                        /\ log' = Append(found, LogRec("WARNING",
                                       "No PDF files found", "", <<>>, ""))
                        /\ UNCHANGED <<pdf_files, raised>>
                   ELSE IF env = "bad_splitter"
                   THEN Fail(found, "ValueError: chunk overlap")
                        /\ UNCHANGED pdf_files
                   ELSE /\ ipc' = "load"
                        /\ pdf_files' = files
                        /\ log' = found
                        /\ UNCHANGED raised

\* Mutant: load_and_split_pdf without its try/except, the loader's error
\* reaches ingest_documents' handler.
LoadPdfUncaught ==
    /\ ipc = "load"
    /\ UNCHANGED <<cvars, fvars>>
    /\ fi < Len(pdf_files)
    /\ LET name == pdf_files[fi + 1]
           started == Append(log, Info("Processing", Str(name), <<>>))
       IN  \/ /\ Fail(started, "LoaderError")
              /\ UNCHANGED <<all_documents, loaded, fi>>
           \/ \E texts \in SeqUpTo(Texts, MaxChunks) :
                LET pages == load_and_split_pdf(name, texts)
                IN  /\ loaded' = Append(loaded,
                            [name |-> name, ok |-> TRUE, texts |-> texts])
                    /\ log' = Append(started,
                            Info("Split into chunks", Str(name), <<Len(pages)>>))
                    /\ all_documents' = all_documents \o pages
                    /\ fi' = fi + 1
                    /\ UNCHANGED <<ipc, raised>>
    /\ UNCHANGED <<env, docs_dir, batch_size, pdf_files, batches, bi,
                   vectorstore, collection, pre, embedCalls, addCalls>>

\* lines 135-137, one iteration: load_and_split_pdf(pdf_path) and extend.
\* The loader either raises (caught at line 86) or returns chunk texts.
LoadPdf ==
    /\ ipc = "load"
    /\ UNCHANGED <<cvars, fvars>>
    /\ fi < Len(pdf_files)
    /\ LET name == pdf_files[fi + 1]
           started == Append(log, Info("Processing", Str(name), <<>>))
       IN  \/ /\ loaded' = Append(loaded, [name |-> name, ok |-> FALSE, texts |-> <<>>])
              /\ log' = Append(started, LogRec("ERROR", "Error processing",
                                               Str(name), <<>>, "LoaderError"))
              /\ UNCHANGED all_documents
           \/ \E texts \in SeqUpTo(Texts, MaxChunks) :
                LET pages == load_and_split_pdf(name, texts)
                IN  /\ loaded' = Append(loaded,
                            [name |-> name, ok |-> TRUE, texts |-> texts])
                    /\ log' = Append(started,
                            Info("Split into chunks", Str(name), <<Len(pages)>>))
                    /\ all_documents' = all_documents \o pages
    /\ fi' = fi + 1
    /\ UNCHANGED <<ipc, env, docs_dir, batch_size, pdf_files, batches, bi,
                   vectorstore, collection, pre, embedCalls, addCalls, raised>>

\* lines 139-158: the emptiness check, create_embeddings, makedirs and
\* process_documents_in_batches; range() raises on a zero step.
MakeBatches ==
    /\ ipc = "load"
    /\ UNCHANGED <<cvars, fvars>>
    /\ fi = Len(pdf_files)
    /\ UNCHANGED <<env, docs_dir, batch_size, pdf_files, fi, loaded,
                   all_documents, bi, vectorstore, collection, pre,
                   embedCalls, addCalls>>
    /\ IF all_documents = <<>>
       THEN /\ ipc' = "returned"
            /\ log' = Append(log, LogRec("ERROR",
                   "No documents were successfully processed", "", <<>>, ""))
            /\ UNCHANGED <<batches, raised>>
       ELSE LET total == Append(Append(log,
                   Info("Total documents to process", "", <<Len(all_documents)>>)),
                   Info("Embeddings model initialized", "", <<>>))
            IN  IF batch_size = 0
                THEN Fail(total, "ValueError: range() arg 3 must not be zero")
                     /\ UNCHANGED batches
                ELSE LET bs == process_documents_in_batches(all_documents,
                                                            batch_size)
                     IN  /\ ipc' = "loop"
                         /\ batches' = bs
                         /\ log' = Append(total,
                                Info("Processing batches", "", <<Len(bs)>>))
                         /\ UNCHANGED raised

\* lines 159-178, one iteration.  Chroma.from_texts and add_texts both embed
\* the batch's texts in one call and then write the records in one call;
\* either call may raise.
ProcessBatch ==
    /\ ipc = "loop"
    /\ UNCHANGED <<cvars, fvars>>
    /\ bi < Len(batches)
    /\ LET batch == batches[bi + 1]
           started == Append(log, Info("Processing batch", "",
                                <<bi + 1, Len(batches), Len(batch)>>))
       IN  \/ /\ embedCalls' = embedCalls + 1
              /\ addCalls' = addCalls + 1
              /\ collection' = collection \o BatchRecords(batch)
              /\ vectorstore' = "handle"
              /\ bi' = bi + 1
              /\ log' = started
              /\ UNCHANGED <<ipc, raised>>
           \/ /\ embedCalls' = embedCalls + 1
              /\ Fail(started, "EmbeddingError")
              /\ UNCHANGED <<addCalls, collection, vectorstore, bi>>
           \/ /\ embedCalls' = embedCalls + 1
              /\ addCalls' = addCalls + 1
              /\ Fail(started, "StoreError")
              /\ UNCHANGED <<collection, vectorstore, bi>>
    /\ UNCHANGED <<env, docs_dir, batch_size, pdf_files, fi, loaded,
                   all_documents, batches, pre>>

\* lines 180-185: vectorstore.persist() and the success message.  With no
\* batch processed vectorstore is still None and the attribute lookup raises;
\* persist itself may fail as any store call may.
Persist ==
    /\ ipc = "loop"
    /\ UNCHANGED <<cvars, fvars>>
    /\ bi = Len(batches)
    /\ IF vectorstore = "None"
       THEN Fail(log,
                 "AttributeError: 'NoneType' object has no attribute 'persist'")
       ELSE \/ /\ ipc' = "done"
               /\ log' = Append(Append(log,
                        Info("Successfully ingested", "", <<Len(all_documents)>>)),
                        Info("Database persisted", "", <<>>))
               /\ UNCHANGED raised
            \/ Fail(log, "PersistError")
    /\ UNCHANGED <<env, docs_dir, batch_size, pdf_files, fi, loaded,
                   all_documents, batches, bi, vectorstore, collection, pre,
                   embedCalls, addCalls>>

NextIngest == FindPdfFiles \/ LoadPdf \/ MakeBatches \/ ProcessBatch \/ Persist

----------------------------------------------------------------------------
\* chat.py: strings typed at the prompt.

MaxQueries == 4   \* lines read in one session
MaxCount   == 2   \* records count() may report

Whitespace == {" "}

RECURSIVE lstrip(_)
lstrip(cs) ==
    IF cs # <<>> /\ Head(cs) \in Whitespace THEN lstrip(Tail(cs)) ELSE cs

RECURSIVE rstrip(_)
rstrip(cs) ==
    IF cs # <<>> /\ cs[Len(cs)] \in Whitespace
    THEN rstrip(SubSeq(cs, 1, Len(cs) - 1))
    ELSE cs

\* str.strip()
strip(cs) == rstrip(lstrip(cs))

LowerChar(c) ==
    CASE c = "Q" -> "q"
      [] c = "E" -> "e"
      [] OTHER -> c

\* str.lower()
lower(cs) == [k \in 1..Len(cs) |-> LowerChar(cs[k])]

\* Lines the user may type.
RawInputs == { <<"h", "i">>,
               <<" ", "w", "h", "y", " ">>,
               <<>>,
               <<" ", " ">>,
               <<"Q">>,
               <<"e", "x", "i", "t">> }

\* Mutant: the empty string is no exit command.
IsExitCommandNamedOnly(user_input) ==
    lower(user_input) \in { <<"e", "x", "i", "t">>, <<"q", "u", "i", "t">>,
                            <<"q">> }

\* line 193: user_input.lower() in ["exit", "quit", "q", ""]
IsExitCommand(user_input) ==
    lower(user_input) \in { <<"e", "x", "i", "t">>, <<"q", "u", "i", "t">>,
                            <<"q">>, <<>> }

----------------------------------------------------------------------------
\* chat.py: format_sources.  A document's metadata may lack either key;
\* dict.get supplies the default.

Meta(has_f, f, has_p, p) ==
    [has_filename |-> has_f, filename |-> f, has_page |-> has_p,
     page_number |-> p]

get_filename(metadata) ==
    IF metadata.has_filename THEN metadata.filename ELSE "Unknown"

\* str() of the page number inside the f-string
get_page(metadata) ==
    IF metadata.has_page THEN ToString(metadata.page_number) ELSE "?"

\* line 130
source_info(metadata) ==
    get_filename(metadata) \o " (page " \o get_page(metadata) \o ")"

\* Mutant: the loop without its membership test.
RECURSIVE citations_no_dedup(_, _, _)
citations_no_dedup(docs, citations, seen_sources) ==
    IF docs = <<>> THEN citations
    ELSE citations_no_dedup(Tail(docs),
                            Append(citations, source_info(Head(docs))),
                            seen_sources)

\* lines 125-134: the loop over source_documents with its seen set
RECURSIVE citations_loop(_, _, _)
citations_loop(docs, citations, seen_sources) ==
    IF docs = <<>> THEN citations
    ELSE LET info == source_info(Head(docs))
         IN  IF info \notin seen_sources
             THEN citations_loop(Tail(docs), Append(citations, info),
                                 seen_sources \cup {info})
             ELSE citations_loop(Tail(docs), citations, seen_sources)

\* ", ".join(citations)
RECURSIVE join(_, _)
join(sep, ss) ==
    IF ss = <<>> THEN ""
    ELSE IF Len(ss) = 1 THEN ss[1]
    ELSE ss[1] \o sep \o join(sep, Tail(ss))

format_sources(source_documents) ==
    IF source_documents = <<>> THEN "No sources found."
    ELSE "Sources: " \o join(", ", citations_loop(source_documents, <<>>, {}))

----------------------------------------------------------------------------
\* chat.py: the chain built by create_retrieval_chain.

RetrievalK == 4

Answers == {"a1", "a2"}

Failures == {"condense_fail", "embed_fail", "search_fail", "answer_fail"}

\* What a similarity search may return: the metadata of the retrieved chunks.
RetrievedSets ==
    { <<Meta(TRUE, "a.pdf", TRUE, 1)>>,
      <<Meta(TRUE, "a.pdf", TRUE, 1), Meta(TRUE, "b.pdf", TRUE, 2)>>,
      <<Meta(TRUE, "a.pdf", TRUE, 1), Meta(TRUE, "a.pdf", TRUE, 1)>> }

Retrievable ==
    {d \in RetrievedSets : Len(d) <= Min(RetrievalK, db.count)}

\* The backend calls one invocation makes before it ends with outcome o: with
\* turns in memory the question is first condensed by the LLM, then the
\* retriever embeds it and searches, then the LLM answers.
ChainBackend(mem, o) ==
    LET condense == IF mem = <<>> THEN 0 ELSE 1
    IN  CASE o = "condense_fail" -> [embed |-> 0, search |-> 0, llm |-> 1]
          [] o = "embed_fail"    -> [embed |-> 1, search |-> 0, llm |-> condense]
          [] o = "search_fail"   -> [embed |-> 1, search |-> 1, llm |-> condense]
          [] OTHER -> [embed |-> 1, search |-> 1, llm |-> condense + 1]

AddCalls(b, d) ==
    [embed |-> b.embed + d.embed, search |-> b.search + d.search,
     llm |-> b.llm + d.llm]

\* Mutant: the turn is saved before the chain has produced its answer.
MemoryAfterSavingFirst(mem, question, o, answer) ==
    Append(mem, [question |-> question, answer |-> answer])

\* memory=memory: the chain saves (question, answer) once it has its outputs;
\* an invocation that raises saves nothing.
MemoryAfter(mem, question, o, answer) ==
    IF o = "ok"
    THEN Append(mem, [question |-> question, answer |-> answer])
    ELSE mem

Ev(kind, q, text, sources) ==
    [kind |-> kind, q |-> q, text |-> text, sources |-> sources]

InitChat ==
    /\ cpc = "start"
    /\ cenv \in {"ok", "missing_key"}
    /\ db \in {[exists |-> FALSE, count |-> 0]} \cup
              {[exists |-> TRUE, count |-> c] : c \in 0..MaxCount}
    /\ memory = <<>>
    /\ chainCalls = 0
    /\ backend = [embed |-> 0, search |-> 0, llm |-> 0]
    /\ raw = <<>>
    /\ reads = 0
    /\ out = <<>>
    /\ ipc = "idle"
    /\ env = "ok"
    /\ docs_dir = [exists |-> FALSE, names |-> {}]
    /\ batch_size = 1
    /\ pdf_files = <<>>
    /\ fi = 0
    /\ loaded = <<>>
    /\ all_documents = <<>>
    /\ batches = <<>>
    /\ bi = 0
    /\ vectorstore = "None"
    /\ pre = <<>>
    /\ collection = <<>>
    /\ embedCalls = 0
    /\ addCalls = 0
    /\ log = <<>>
    /\ raised = "none"
    /\ fpc = "idle"
    /\ fdocs = <<>>
    /\ fout = ""
    /\ fout2 = ""

\* Mutant: initialize_vectorstore without its count check.
ChatInitNoCountCheck ==
    /\ cpc = "start"
    /\ UNCHANGED <<ivars, fvars>>
    /\ UNCHANGED <<cenv, db, memory, chainCalls, backend, raw, reads>>
    /\ IF cenv = "missing_key"
       THEN /\ cpc' = "init_failed"
            /\ out' = Append(out, Ev("init_failed", "",
                         "ValueError: missing environment variables", ""))
       ELSE IF ~db.exists
       THEN /\ cpc' = "init_failed"
            /\ out' = Append(out, Ev("init_failed", "",
                         "FileNotFoundError: database directory", ""))
       ELSE /\ cpc' = "prompt"
            /\ out' = Append(out, Ev("welcome", "", "", ""))

\* lines 173-186 and the handler at 229-236: load_environment,
\* initialize_vectorstore, create_retrieval_chain, print_welcome.
ChatInit ==
    /\ cpc = "start"
    /\ UNCHANGED <<ivars, fvars>>
    /\ UNCHANGED <<cenv, db, memory, chainCalls, backend, raw, reads>>
    /\ IF cenv = "missing_key"
       THEN /\ cpc' = "init_failed"
            /\ out' = Append(out, Ev("init_failed", "",
                         "ValueError: missing environment variables", ""))
       ELSE IF ~db.exists
       THEN /\ cpc' = "init_failed"
            /\ out' = Append(out, Ev("init_failed", "",
                         "FileNotFoundError: database directory", ""))
       ELSE IF db.count = 0
       THEN /\ cpc' = "init_failed"
            /\ out' = Append(out, Ev("init_failed", "",
                         "ValueError: No documents found in the knowledge base",
                         ""))
       ELSE /\ cpc' = "prompt"
            /\ out' = Append(out, Ev("welcome", "", "", ""))

\* get_user_input, lines 153-155: Ctrl-C at the prompt ends the process.
ReadInterrupt ==
    /\ cpc = "prompt"
    /\ reads < MaxQueries
    /\ cpc' = "interrupted"
    /\ out' = Append(out, Ev("goodbye", "", "", ""))
    /\ UNCHANGED <<cenv, db, memory, chainCalls, backend, raw, reads>>
    /\ UNCHANGED <<ivars, fvars>>

\* get_user_input, lines 156-157: end of input reads as "exit".
ReadEOF ==
    /\ cpc = "prompt"
    /\ reads < MaxQueries
    /\ cpc' = "exited"
    /\ out' = Append(out, Ev("goodbye", "", "", ""))
    /\ UNCHANGED <<cenv, db, memory, chainCalls, backend, raw, reads>>
    /\ UNCHANGED <<ivars, fvars>>

\* lines 190-195: a line that is an exit command ends the loop.
ExitCommand ==
    /\ cpc = "prompt"
    /\ reads < MaxQueries
    /\ \E line \in RawInputs :
          /\ IsExitCommand(strip(line))
          /\ raw' = line
    /\ reads' = reads + 1
    /\ cpc' = "exited"
    /\ out' = Append(out, Ev("goodbye", "", "", ""))
    /\ UNCHANGED <<cenv, db, memory, chainCalls, backend>>
    /\ UNCHANGED <<ivars, fvars>>

\* lines 190-221: a question the chain answers.
AnswerQuery ==
    /\ cpc = "prompt"
    /\ reads < MaxQueries
    /\ \E line \in RawInputs, answer \in Answers, source_docs \in Retrievable :
          LET user_input == strip(line)
          IN  /\ ~IsExitCommand(user_input)
              /\ raw' = line
              /\ memory' = MemoryAfter(memory, Str(user_input), "ok", answer)
              /\ backend' = AddCalls(backend, ChainBackend(memory, "ok"))
              /\ out' = Append(out, Ev("answer", Str(user_input), answer,
                                       format_sources(source_docs)))
    /\ reads' = reads + 1
    /\ chainCalls' = chainCalls + 1
    /\ UNCHANGED <<cpc, cenv, db>>
    /\ UNCHANGED <<ivars, fvars>>

\* lines 190-207 and 223-227: a question on which the chain raises.
FailQuery ==
    /\ cpc = "prompt"
    /\ reads < MaxQueries
    /\ \E line \in RawInputs, o \in Failures :
          LET user_input == strip(line)
          IN  /\ ~IsExitCommand(user_input)
              /\ o = "condense_fail" => memory # <<>>
              /\ raw' = line
              /\ memory' = MemoryAfter(memory, Str(user_input), o, "")
              /\ backend' = AddCalls(backend, ChainBackend(memory, o))
              /\ out' = Append(out, Ev("error", Str(user_input), o, ""))
    /\ reads' = reads + 1
    /\ chainCalls' = chainCalls + 1
    /\ UNCHANGED <<cpc, cenv, db>>
    /\ UNCHANGED <<ivars, fvars>>

\* Ctrl-C while the chain runs: KeyboardInterrupt is no Exception, neither
\* handler catches it and the process ends.
InterruptQuery ==
    /\ cpc = "prompt"
    /\ reads < MaxQueries
    /\ \E line \in RawInputs :
          /\ ~IsExitCommand(strip(line))
          /\ raw' = line
    /\ reads' = reads + 1
    /\ chainCalls' = chainCalls + 1
    /\ cpc' = "killed"
    /\ UNCHANGED <<cenv, db, memory, backend, out>>
    /\ UNCHANGED <<ivars, fvars>>

NextChat ==
    \/ ChatInit
    \/ ReadInterrupt
    \/ ReadEOF
    \/ ExitCommand
    \/ AnswerQuery
    \/ FailQuery
    \/ InterruptQuery

----------------------------------------------------------------------------
\* format_sources applied to arbitrary retrieved sequences.

MaxDocs == 3   \* retrieved documents in one call

FileNames == {"a.txt", "b.txt"}

Pages == {1, 2}

Metas ==
    {Meta(TRUE, f, TRUE, p) : f \in FileNames, p \in Pages} \cup
    {Meta(TRUE, f, FALSE, 0) : f \in FileNames} \cup
    {Meta(FALSE, "", TRUE, p) : p \in Pages} \cup
    {Meta(FALSE, "", FALSE, 0)}

\* The first occurrence of every (filename, page) pair, as values read by
\* dict.get.
Pair(metadata) == <<get_filename(metadata), get_page(metadata)>>

FirstOccurrences(docs) ==
    {i \in 1..Len(docs) : \A j \in 1..(i - 1) : Pair(docs[j]) # Pair(docs[i])}

RECURSIVE Keep(_, _, _)
Keep(docs, i, S) ==
    IF i > Len(docs) THEN <<>>
    ELSE (IF i \in S THEN <<docs[i]>> ELSE <<>>) \o Keep(docs, i + 1, S)

Deduplicated(docs) == Keep(docs, 1, FirstOccurrences(docs))

InitFormat ==
    /\ fpc = "start"
    /\ fdocs \in SeqUpTo(Metas, MaxDocs)
    /\ fout = ""
    /\ fout2 = ""
    /\ ipc = "idle"
    /\ env = "ok"
    /\ docs_dir = [exists |-> FALSE, names |-> {}]
    /\ batch_size = 1
    /\ pdf_files = <<>>
    /\ fi = 0
    /\ loaded = <<>>
    /\ all_documents = <<>>
    /\ batches = <<>>
    /\ bi = 0
    /\ vectorstore = "None"
    /\ pre = <<>>
    /\ collection = <<>>
    /\ embedCalls = 0
    /\ addCalls = 0
    /\ log = <<>>
    /\ raised = "none"
    /\ cpc = "idle"
    /\ cenv = "ok"
    /\ db = [exists |-> FALSE, count |-> 0]
    /\ memory = <<>>
    /\ chainCalls = 0
    /\ backend = [embed |-> 0, search |-> 0, llm |-> 0]
    /\ raw = <<>>
    /\ reads = 0
    /\ out = <<>>

Format ==
    /\ fpc = "start"
    /\ fout' = format_sources(fdocs)
    /\ fpc' = "formatted"
    /\ UNCHANGED <<fdocs, fout2>>
    /\ UNCHANGED <<ivars, cvars>>

Reformat ==
    /\ fpc = "formatted"
    /\ fout2' = format_sources(Deduplicated(fdocs))
    /\ fpc' = "reformatted"
    /\ UNCHANGED <<fdocs, fout>>
    /\ UNCHANGED <<ivars, cvars>>

NextFormat == Format \/ Reformat

----------------------------------------------------------------------------
\* The three programs, each on its own: the variables of the other two
\* rest at their idle values.

SpecIngest == InitIngest /\ [][NextIngest]_vars

SpecChat == InitChat /\ [][NextChat]_vars

SpecFormat == InitFormat /\ [][NextFormat]_vars

Init == InitIngest \/ InitChat \/ InitFormat

Next == NextIngest \/ NextChat \/ NextFormat

Spec == Init /\ [][Next]_vars

----------------------------------------------------------------------------
\* Vocabulary of the ingestion claims.

Ceil(m, b) == (m + b - 1) \div b

RECURSIVE Flatten(_)
Flatten(ss) == IF ss = <<>> THEN <<>> ELSE Head(ss) \o Flatten(Tail(ss))

\* Chunks the loader produced for the first k processed files.
RECURSIVE ChunksBefore(_)
ChunksBefore(k) ==
    IF k = 0 THEN 0 ELSE ChunksBefore(k - 1) + Len(loaded[k].texts)

TotalChunks == ChunksBefore(Len(loaded))

\* The chunk that processed file k contributed as its j-th.
ChunkOf(k, j) == all_documents[ChunksBefore(k - 1) + j]

\* The processed file that owns position p of all_documents.
OwnerOf(p) ==
    CHOOSE k \in 1..Len(loaded) :
        ChunksBefore(k - 1) < p /\ p <= ChunksBefore(k)

Positions == 1..Len(all_documents)

Batched == ipc \in {"loop", "done"} \/ batches # <<>>

BatchFailed == ipc = "failed" /\ raised \in {"EmbeddingError", "StoreError"}

SuccessLogged == \E k \in 1..Len(log) : log[k].msg = "Successfully ingested"

\* C1: a run with batch size B >= 1 that meets no failure issues ceil(M/B)
\* embedding calls and ceil(M/B) store writes for the M chunks its documents
\* produced, and leaves the collection with M records more than it held.
C1_CallsAndCount ==
    (ipc = "done" /\ batch_size >= 1) =>
        /\ Len(all_documents) = TotalChunks
        /\ TotalChunks >= 1
        /\ embedCalls = Ceil(TotalChunks, batch_size)
        /\ addCalls = Ceil(TotalChunks, batch_size)
        /\ Len(collection) = TotalChunks + Len(pre)
        /\ SubSeq(collection, 1, Len(pre)) = pre

C1_Witness ==
    /\ ipc = "done"
    /\ batch_size = 2
    /\ TotalChunks = 3
    /\ Len(pre) >= 1
    /\ Len(loaded) >= 2

\* C2: for batch size B >= 1 the batches are consecutive, non-empty slices
\* whose concatenation is the chunk sequence, all of size B except possibly
\* the last, and the records the batch loop has written are those one write
\* of the same chunks would have written, in the same order.
C2_BatchingPreservesContent ==
    (Batched /\ batch_size >= 1) =>
        /\ Flatten(batches) = all_documents
        /\ \A k \in 1..Len(batches) :
              /\ batches[k] # <<>>
              /\ Len(batches[k]) <= batch_size
              /\ k < Len(batches) => Len(batches[k]) = batch_size
        /\ collection =
              pre \o BatchRecords(Flatten(SubSeq(batches, 1, bi)))
        /\ ipc = "done" => collection = pre \o BatchRecords(all_documents)

C2_Witness ==
    /\ ipc = "done"
    /\ batch_size = 3
    /\ Len(batches) = 2
    /\ Len(batches[2]) = 1
    /\ batches[2][1] = all_documents[4]
    /\ all_documents[4].metadata # all_documents[2].metadata

\* C4: a PDF whose loading raises is logged and contributes no chunk; the
\* loop goes on to the remaining files, every file that loaded has all its
\* chunks, in order, in the sequence that is batched and written, and the
\* run is never aborted while files remain to be loaded.
C4_DocumentFailureIsLocal ==
    /\ Len(all_documents) = TotalChunks
    /\ \A k \in 1..Len(loaded) :
          /\ loaded[k].name = pdf_files[k]
          /\ ~loaded[k].ok =>
                /\ loaded[k].texts = <<>>
                /\ \E m \in 1..Len(log) :
                      /\ log[m].level = "ERROR"
                      /\ log[m].msg = "Error processing"
                      /\ log[m].name = Str(loaded[k].name)
          /\ \A j \in 1..Len(loaded[k].texts) :
                /\ ChunkOf(k, j).page_content = loaded[k].texts[j]
                /\ ChunkOf(k, j).metadata.filename = Str(loaded[k].name)
    /\ (pdf_files # <<>> /\ ipc # "load") => Len(loaded) = Len(pdf_files)
    /\ (pdf_files # <<>> /\ TotalChunks >= 1) => ipc # "returned"
    /\ (ipc = "done" /\ batch_size >= 1) =>
          SubSeq(collection, Len(pre) + 1, Len(collection))
              = BatchRecords(all_documents)

C4_Witness ==
    /\ ipc = "done"
    /\ Len(loaded) = 2
    /\ ~loaded[1].ok
    /\ Len(loaded[2].texts) = 2

\* C5: when the embedding or the store write of batch j fails, no later batch
\* is processed, no success is logged, the error reaches the caller, and the
\* failure report states the number j - 1 of batches completed before it.
C5_AbortReportsCompletedBatches ==
    BatchFailed =>
        /\ embedCalls = bi + 1
        /\ collection = pre \o BatchRecords(Flatten(SubSeq(batches, 1, bi)))
        /\ ~SuccessLogged
        /\ raised # "none"
        /\ LET report == log[Len(log)]
           IN  /\ report.msg = "Ingestion failed"
               /\ \E n \in 1..Len(report.nums) : report.nums[n] = bi

\* The part of C5 that the code keeps: abort, no success message, re-raise.
C5_AbortsWithoutCount ==
    BatchFailed =>
        /\ embedCalls = bi + 1
        /\ addCalls \in {bi, bi + 1}
        /\ collection = pre \o BatchRecords(Flatten(SubSeq(batches, 1, bi)))
        /\ ~SuccessLogged
        /\ raised = log[Len(log)].err
        /\ log[Len(log)].nums = <<>>

\* C9 as stated: chunk j of a document has page_number j, the document's
\* filename and source path, the identifier <stem>_<j>, and no two chunks of
\* a run share an identifier.
C9_StemOrdinalIds ==
    /\ \A k \in 1..Len(loaded) : \A j \in 1..Len(loaded[k].texts) :
          /\ ChunkOf(k, j).metadata.page_number = j
          /\ ChunkOf(k, j).metadata.filename = Str(loaded[k].name)
          /\ ChunkOf(k, j).metadata.source_path = "docs/" \o Str(loaded[k].name)
          /\ ChunkOf(k, j).metadata.chunk_id =
                Str(stem(loaded[k].name)) \o "_" \o ToString(j)
    /\ \A p, q \in Positions :
          p # q => all_documents[p].metadata.chunk_id
                       # all_documents[q].metadata.chunk_id

\* C9 amended: the identifier is <stem>_page_<j>, and two chunks share one
\* only when they are the j-th chunks of two files with the same stem.
C9_StemPageOrdinalIds ==
    /\ \A k \in 1..Len(loaded) : \A j \in 1..Len(loaded[k].texts) :
          /\ ChunkOf(k, j).metadata.page_number = j
          /\ ChunkOf(k, j).metadata.filename = Str(loaded[k].name)
          /\ ChunkOf(k, j).metadata.source_path = "docs/" \o Str(loaded[k].name)
          /\ ChunkOf(k, j).metadata.chunk_id =
                Str(stem(loaded[k].name)) \o "_page_" \o ToString(j)
    /\ \A p, q \in Positions :
          (p # q /\ all_documents[p].metadata.chunk_id
                        = all_documents[q].metadata.chunk_id) =>
              /\ OwnerOf(p) # OwnerOf(q)
              /\ loaded[OwnerOf(p)].name # loaded[OwnerOf(q)].name
              /\ stem(loaded[OwnerOf(p)].name) = stem(loaded[OwnerOf(q)].name)
              /\ all_documents[p].metadata.page_number
                     = all_documents[q].metadata.page_number

C9_Witness ==
    /\ ipc = "done"
    /\ Len(loaded) = 2
    /\ Len(loaded[1].texts) = 2
    /\ Len(loaded[2].texts) = 2
    /\ all_documents[2].metadata.chunk_id = all_documents[4].metadata.chunk_id
    /\ all_documents[2].metadata.filename # all_documents[4].metadata.filename

\* C10: for every integer batch size, when control stands at the persist
\* step the collection handle exists and every chunk has been written.
C10_PersistHasHandle ==
    (ipc = "loop" /\ bi = Len(batches)) =>
        /\ vectorstore # "None"
        /\ collection = pre \o BatchRecords(all_documents)

\* The part of C10 that the code keeps: success is logged only with a handle
\* and every chunk written.
C10_SuccessImpliesHandle ==
    SuccessLogged =>
        /\ ipc = "done"
        /\ vectorstore = "handle"
        /\ batches # <<>>
        /\ collection = pre \o BatchRecords(all_documents)

----------------------------------------------------------------------------
\* Vocabulary of the chat claims.

Kinds(k) == SelectSeq(out, LAMBDA e : e.kind = k)

Answered == Kinds("answer")

NoBackend == [embed |-> 0, search |-> 0, llm |-> 0]

IsBlank(line) == strip(line) = <<>>

\* C3: Conversation Memory holds one turn per answered query, in the order
\* the answers were given; a query on which the chain raises adds no turn,
\* is reported, and leaves the loop at its prompt.
C3_MemoryMatchesAnswers ==
    /\ [](/\ Len(memory) = Len(Answered)
          /\ \A i \in 1..Len(memory) :
                memory[i] = [question |-> Answered[i].q,
                             answer |-> Answered[i].text]
          /\ chainCalls = Len(Answered) + Len(Kinds("error"))
                              + (IF cpc = "killed" THEN 1 ELSE 0))
    /\ [][(chainCalls' = chainCalls + 1 /\ cpc' # "killed"
              /\ out'[Len(out')].kind # "answer") =>
             /\ memory' = memory
             /\ out' = Append(out, Ev("error", Str(strip(raw')),
                                      out'[Len(out')].text, ""))
             /\ cpc' = "prompt"]_vars

C3_Witness ==
    /\ cpc = "prompt"
    /\ Len(out) = 5
    /\ out[2].kind = "answer"
    /\ out[3].kind = "answer"
    /\ out[4].kind = "error"
    /\ out[5].kind = "answer"
    /\ out[2].q # out[3].q
    /\ Len(memory) = 3

\* C7: when the collection reports zero records the program stops during
\* initialisation: no line is read, nothing is embedded, searched or sent to
\* the language model, and no turn is recorded.
C7_EmptyIndexRejected ==
    db.count = 0 =>
        /\ cpc \in {"start", "init_failed"}
        /\ reads = 0
        /\ chainCalls = 0
        /\ backend = NoBackend
        /\ memory = <<>>
        /\ (cpc = "init_failed" /\ cenv = "ok" /\ db.exists) =>
              out[Len(out)].text
                  = "ValueError: No documents found in the knowledge base"

C7_Witness ==
    /\ cpc = "init_failed"
    /\ cenv = "ok"
    /\ db.exists
    /\ db.count = 0

\* C8 as stated: an empty or whitespace-only line is rejected without
\* invoking the chain or recording a turn, and the loop stays at its prompt.
C8_BlankRejectedLoopContinues ==
    [][(reads' = reads + 1 /\ IsBlank(raw')) =>
          /\ chainCalls' = chainCalls
          /\ backend' = backend
          /\ memory' = memory
          /\ cpc' = "prompt"]_vars

\* C8 amended: an empty or whitespace-only line never reaches the chain and
\* records no turn; it is taken as an exit command, the goodbye message is
\* printed and the loop ends.
C8_BlankEndsSessionWithoutBackend ==
    [][(reads' = reads + 1 /\ IsBlank(raw')) =>
          /\ chainCalls' = chainCalls
          /\ backend' = backend
          /\ memory' = memory
          /\ out' = Append(out, Ev("goodbye", "", "", ""))
          /\ cpc' = "exited"]_vars

C8_Witness ==
    /\ cpc = "exited"
    /\ reads = 2
    /\ raw = <<" ", " ">>
    /\ Len(memory) = 1
    /\ chainCalls = 1

----------------------------------------------------------------------------
\* Vocabulary of the citation claim.

Citation(pair) == pair[1] \o " (page " \o pair[2] \o ")"

Expected(docs) ==
    LET d == Deduplicated(docs)
    IN  "Sources: " \o join(", ", [k \in 1..Len(d) |-> Citation(Pair(d[k]))])

Example ==
    <<Meta(TRUE, "a.txt", TRUE, 1), Meta(TRUE, "b.txt", TRUE, 2),
      Meta(TRUE, "a.txt", TRUE, 1)>>

\* C6: format_sources lists every distinct (filename, page) pair once, in
\* the order of first occurrence; formatting the sequence without its
\* repeats gives the same string; the example of the specification yields
\* a.txt (page 1), b.txt (page 2).
C6_CitationsDistinctInOrder ==
    /\ (fpc \in {"formatted", "reformatted"} /\ fdocs # <<>>) =>
          fout = Expected(fdocs)
    /\ fpc = "reformatted" => fout2 = fout
    /\ (fpc \in {"formatted", "reformatted"} /\ fdocs = Example) =>
          fout = "Sources: a.txt (page 1), b.txt (page 2)"

C6_Witness ==
    /\ fpc = "reformatted"
    /\ fdocs = Example
    /\ fout2 = "Sources: a.txt (page 1), b.txt (page 2)"

====
